---------------------------- MODULE Spec2Model ----------------------------
(***************************************************************************)
(* Model of the streaming core of the sales dashboard backend:             *)
(*   - DataGenerator (app/services/data_generator.py): the tick loop that  *)
(*     classifies, samples, persists and publishes one sale per tick;      *)
(*   - the Redis pub/sub channels (app/services/redis_client.py) and the   *)
(*     SSE generators that forward them (app/routes/stream.py,             *)
(*     app/routes/streaming.py);                                           *)
(*   - DataSyncService.generate_alerts_from_sales                          *)
(*     (app/services/data_sync.py);                                        *)
(*   - the response cache (app/services/cache.py) with the read endpoints  *)
(*     that use it and the promotion writes that invalidate it;            *)
(*   - the shutdown half of the application lifespan (app/main.py);        *)
(*   - _update_market_conditions followed against the clock;               *)
(*   - the generate_returns endpoint (app/routes/stream.py).               *)
(*                                                                         *)
(* Real numbers are fixed point: sentiment, volatility, weights and        *)
(* multipliers in hundredths, sale magnitudes in tenths.                   *)
(***************************************************************************)
EXTENDS Integers, Sequences, FiniteSets, TLC

VARIABLES
    \* ---- DataGenerator ------------------------------------------------
    gen_pc,               \* position of the task running DataGenerator.start
    is_running,           \* self.is_running
    historical_stats,     \* self.historical_stats: set of profile records
    load_error,           \* _load_historical_stats raised
    market_sentiment,     \* self.market_sentiment (hundredths)
    volatility_factor,    \* self.volatility_factor (hundredths)
    consecutive_returns,  \* self.consecutive_returns
    class_rand,           \* local `rand` of _get_transaction_type (hundredths)
    class_force,          \* its second random.random() draw (hundredths)
    high_return_draw,     \* random.random() of the high-return test (hundredths)
    transaction_type,     \* local of _generate_and_store_sale
    store_id,             \* local of _generate_and_store_sale
    item_id,              \* local of _generate_and_store_sale
    sales_value,          \* local of _generate_and_store_sale
    sale_data,            \* local of start(): the payload the tick returned
    tick_error,           \* an exception of the current tick was caught by start()
    return_streak,        \* returns at the end of the persisted generator events
    tick_persisted,       \* Sale rows the current tick has committed
    tick_published,       \* messages the current tick has published
    \* ---- Redis pub/sub and the SSE generators -------------------------
    published,            \* channel -> number of messages published so far
    f_kind,               \* connection -> which generator serves it
    f_pc,                 \* connection -> position of its generator
    f_subscribed,         \* connection -> its pubsub is subscribed on the server
    f_closed,             \* connection -> pubsub.close() has run
    f_sub_at,             \* connection -> published[channel] when it subscribed
    f_queue,              \* connection -> messages delivered, not yet read
    f_frames,             \* connection -> frames yielded to the client
    f_client,             \* connection -> the client is still connected
    \* ---- generate_alerts_from_sales -----------------------------------
    ga_pc,                \* position of a call of generate_alerts_from_sales
    ga_alerts,            \* local `alerts`
    ga_alert_id,          \* local `alert_id`
    ga_failed,            \* detectors whose query raised during the call
    ga_daily_sales,       \* what the anomaly query of the call found in the table
    ga_store_sales,       \* what the store performance query found in the table
    \* ---- services/cache.py and the endpoints that use it ---------------
    redis_client,         \* redis_client.redis_client, the module global
    cache_redis_client,   \* cache.redis_client, the name cache.py imported
    cache_store,          \* the Redis keyspace: key -> entry or None
    now,                  \* seconds since startup
    db_version,           \* committed promotion writes
    ep_pc,                \* position of a cached read endpoint
    ep_op,                \* the operation (cache prefix) it serves
    ep_cached,            \* its local `cached`
    ep_got_at,            \* when its get_cached call returned
    ep_computed,          \* the result it computed from the database
    ep_result,            \* what it returned
    last_set,             \* the latest set_cached call
    w_pc,                 \* position of a promotion write endpoint
    \* ---- main.py: lifespan --------------------------------------------
    app_pc,               \* position of lifespan
    db_closed,            \* close_db() has returned
    redis_closed,         \* close_redis() has returned
    \* ---- _update_market_conditions against the clock --------------------
    clock,                \* datetime.now(), seconds since construction
    last_sentiment_update, \* self.last_sentiment_update, same unit
    \* ---- routes/stream.py: generate_returns ---------------------------
    gr_pc,                \* position of a request of generate_returns
    gr_i,                 \* iterations of its loop completed
    gr_pending,           \* ids of the Sale rows flushed in its open transaction
    sales_table           \* ids of the Sale rows it has committed

gen_vars == <<gen_pc, is_running, historical_stats, load_error, market_sentiment,
              volatility_factor, consecutive_returns, class_rand, class_force,
              high_return_draw, transaction_type, store_id, item_id, sales_value, sale_data,
              tick_error, return_streak, tick_persisted, tick_published>>

bus_vars == <<published, f_kind, f_pc, f_subscribed, f_closed, f_sub_at,
              f_queue, f_frames, f_client>>

ga_vars == <<ga_pc, ga_alerts, ga_alert_id, ga_failed, ga_daily_sales,
             ga_store_sales>>

cache_vars == <<redis_client, cache_redis_client, cache_store, now, db_version,
                ep_pc, ep_op, ep_cached, ep_got_at, ep_computed, ep_result,
                last_set, w_pc>>

life_vars == <<app_pc, db_closed, redis_closed>>

mkt_vars == <<clock, last_sentiment_update>>

gr_vars == <<gr_pc, gr_i, gr_pending, sales_table>>

vars == <<gen_vars, bus_vars, ga_vars, cache_vars, life_vars, mkt_vars, gr_vars>>

-----------------------------------------------------------------------------
(* Bounds of the model *)

\* the tick that would take consecutive_returns past MaxCounter is not explored
MaxCounter == 6
\* messages published over all channels
MaxMsgs == 3

Min(a, b) == IF a <= b THEN a ELSE b
Max(a, b) == IF a >= b THEN a ELSE b

\* Python's int(): truncation towards zero of n/d
Trunc(n, d) == IF n >= 0 THEN n \div d ELSE -((-n) \div d)

None == [none |-> TRUE]

-----------------------------------------------------------------------------
(* DataGenerator: constants of the class and of its methods *)

\* TRANSACTION_TYPES, in the iteration order of the dict
TxOrder == <<"regular_sale", "promotional_sale", "return", "bulk_purchase", "slow_period">>

TRANSACTION_TYPES ==
    [regular_sale |-> 62, promotional_sale |-> 12, return |-> 15,
     bulk_purchase |-> 6, slow_period |-> 5]

\* high_return_items of _generate_and_store_sale
HighReturnItems == {5, 12, 18, 25, 33, 41, 48}

\* the default of historical_stats.get in _generate_sale_value
DefaultStats == [mean |-> 15, std |-> 5, min |-> 0, max |-> 100]

\* A column of a result row is <<>> for NULL and <<v>> for the value v.
\* Python's truth test `x if x else d`: NULL and 0 both take the default.
Truthy(col) == col # <<>> /\ col[1] # 0

\* Rows the statistics query of _load_historical_stats may return (one per
\* (store_id, item_id) group); the historical table holds any subset of them.
HistoricalRows ==
    { [store_id |-> 1, item_id |-> 1, mean_sales |-> <<1>>, std_sales |-> <<>>,
       min_sales |-> <<0>>, max_sales |-> <<1>>],
      [store_id |-> 1, item_id |-> 5, mean_sales |-> <<-2>>, std_sales |-> <<1>>,
       min_sales |-> <<-4>>, max_sales |-> <<-1>>] }

\* random.randint(1, 10) and random.randint(1, 50): the ids the ticks sample.
\* Item 1 is an ordinary item, item 5 is one of the high-return items; each
\* has a historical row or not.
StoreChoices == {1}
ItemChoices == {1, 5}

\* the dict entry _load_historical_stats builds from one row
StatsOfRow(row) ==
    [key  |-> <<row.store_id, row.item_id>>,
     mean |-> IF Truthy(row.mean_sales) THEN row.mean_sales[1] ELSE 15,
     std  |-> IF Truthy(row.std_sales) THEN row.std_sales[1] ELSE 5,
     min  |-> IF Truthy(row.min_sales) THEN row.min_sales[1] ELSE 0,
     max  |-> IF Truthy(row.max_sales) THEN row.max_sales[1] ELSE 100]

\* self.historical_stats.get(key, {'mean': 15, 'std': 5, 'min': 0, 'max': 100})
StatsGet(stats, key) ==
    IF \E e \in stats : e.key = key
    THEN LET e == CHOOSE e \in stats : e.key = key
         IN  [mean |-> e.mean, std |-> e.std, min |-> e.min, max |-> e.max]
    ELSE DefaultStats

-----------------------------------------------------------------------------
(* _update_market_conditions *)

\* (now - self.last_sentiment_update).seconds, as the tick finds it
ElapsedChoices == {20, 45, 95}
\* random.randint(30, 90)
ThresholdChoices == {30, 90}
\* np.random.normal(0, 0.15), hundredths
SentimentChangeChoices == {-70, 0, 70}
\* random.choice([-0.3, -0.2, 0.2, 0.3, 0.4]), hundredths
ShockChoices == {-30, -20, 20, 30, 40}
\* 0.8 + random.random() * 0.8, hundredths
VolatilityChoices == {80, 159}

\* timedelta.seconds: the seconds field of the difference, without its days
TimedeltaSeconds(d) == d % 86400

\* the test with >= in place of >
UpdateDueInclusive(elapsed, threshold) == elapsed >= threshold

\* (now - self.last_sentiment_update).seconds > random.randint(30, 90)
UpdateDue(elapsed, threshold) == elapsed > threshold

SentimentStep(s, change) == Max(40, Min(160, s + change))
\* the shock without its clamp
SentimentShockUnclamped(s, shock) == s + shock

\* max(0.3, min(1.8, self.market_sentiment + shock))
SentimentShock(s, shock) == Max(30, Min(180, s + shock))

-----------------------------------------------------------------------------
(* _get_transaction_type *)

\* the weight table after the adjustment for the market sentiment
AdjustedWeights(sentiment) ==
    IF sentiment < 80
    THEN [TRANSACTION_TYPES EXCEPT !.return = 20, !.regular_sale = 55, !.slow_period = 10]
    ELSE IF sentiment > 130
    THEN [TRANSACTION_TYPES EXCEPT !.bulk_purchase = 10, !.promotional_sale = 15, !.return = 10]
    ELSE TRANSACTION_TYPES

RECURSIVE CumulativePickStrict(_, _, _, _)
\* the loop with `rand < cumulative`
CumulativePickStrict(weights, rand, i, cumulative) ==
    IF i > Len(TxOrder) THEN "regular_sale"
    ELSE LET c == cumulative + weights[TxOrder[i]]
         IN  IF rand < c THEN TxOrder[i]
             ELSE CumulativePickStrict(weights, rand, i + 1, c)

RECURSIVE CumulativePick(_, _, _, _)
\* the loop over adjusted_weights.items(): first type with rand <= cumulative
CumulativePick(weights, rand, i, cumulative) ==
    IF i > Len(TxOrder) THEN "regular_sale"
    ELSE LET c == cumulative + weights[TxOrder[i]]
         IN  IF rand <= c THEN TxOrder[i]
             ELSE CumulativePick(weights, rand, i + 1, c)

\* the classifier with the strict comparison in its loop
GetTransactionTypeStrict(sentiment, rand, force_draw) ==
    IF force_draw < 15 THEN "return"
    ELSE CumulativePickStrict(AdjustedWeights(sentiment), rand, 1, 0)

\* rand and force_draw are the two random.random() draws, hundredths
GetTransactionType(sentiment, rand, force_draw) ==
    IF force_draw < 15 THEN "return"
    ELSE CumulativePick(AdjustedWeights(sentiment), rand, 1, 0)

\* random.random() draws used by the classifier
RandChoices == {0, 55, 62, 63, 74, 75, 80, 89, 90, 95, 96, 99}
DrawChoices == {10, 50}

-----------------------------------------------------------------------------
(* _generate_and_store_sale: damping and the high-return override *)

Damped(cr, ttype) ==
    IF cr >= 5 /\ ttype = "return" THEN "regular_sale" ELSE ttype

\* the override without the test of the item
HighReturnOverrideAnyItem(item, draw, ttype) ==
    IF draw < 15 THEN "return" ELSE ttype

\* if item_id in high_return_items and random.random() < 0.15
HighReturnOverride(item, draw, ttype) ==
    IF item \in HighReturnItems /\ draw < 15 THEN "return" ELSE ttype

-----------------------------------------------------------------------------
(* _generate_sale_value *)

\* np.random.normal(mean * factors, adjusted_std): base_value, tenths
BaseValueChoices == {-50, 0, 4, 150, 1000}
\* abs(np.random.normal(mean * 0.6, std * 0.5)): return_magnitude, tenths
ReturnMagnitudeChoices == {0, 5, 90, 1000}
\* np.random.normal(0, std * 0.3): noise of a regular sale, tenths
NoiseChoices == {-20, 0, 20}

\* the factor applied to base_value, hundredths, by transaction type
MultiplierChoices(ttype) ==
    CASE ttype = "promotional_sale" -> {150, 249}
      [] ttype = "bulk_purchase"    -> {300, 699}
      [] ttype = "slow_period"      -> {10, 39}
      [] OTHER                      -> {100}

\* _generate_sale_value with the floors at 0 instead of 1
GenerateSaleValueFloorZero(stats, ttype, base, mult, noise, retmag) ==
    IF ttype = "return"
    THEN -Trunc(Max(0, Min(retmag, stats.max * 8)), 10)
    ELSE LET value == IF ttype = "regular_sale"
                      THEN Trunc(base + noise, 10)
                      ELSE Trunc(base * mult, 1000)
         IN  Max(0, Min(stats.max * 2, value))

\* the value _generate_sale_value returns
\* _generate_sale_value without the cap at twice the historical max
GenerateSaleValueUncapped(stats, ttype, base, mult, noise, retmag) ==
    IF ttype = "return"
    THEN -Trunc(Max(10, Min(retmag, stats.max * 8)), 10)
    ELSE LET value == IF ttype = "regular_sale"
                      THEN Trunc(base + noise, 10)
                      ELSE Trunc(base * mult, 1000)
         IN  Max(1, value)

GenerateSaleValue(stats, ttype, base, mult, noise, retmag) ==
    IF ttype = "return"
    THEN \* -int(max(1, min(return_magnitude, stats['max'] * 0.8)))
         -Trunc(Max(10, Min(retmag, stats.max * 8)), 10)
    ELSE LET value == IF ttype = "regular_sale"
                      THEN Trunc(base + noise, 10)
                      ELSE Trunc(base * mult, 1000)
         IN  \* max(1, min(stats['max'] * 2, int(value)))
             Max(1, Min(stats.max * 2, value))

\* self.consecutive_returns after _generate_sale_value
CountReturns(cr, ttype) == IF ttype = "return" THEN cr + 1 ELSE 0

\* the payload _generate_and_store_sale publishes (fields the claims read)
SaleData(s, i, value, ttype, sentiment) ==
    [store_id |-> s, item_id |-> i, sales |-> value, is_streaming |-> TRUE,
     transaction_type |-> ttype,
     transaction_label |-> IF value < 0 THEN "RETURN"
                           ELSE IF ttype = "promotional_sale" THEN "PROMO"
                           ELSE IF ttype = "bulk_purchase" THEN "BULK"
                           ELSE IF ttype = "slow_period" THEN "SLOW"
                           ELSE "SALE",
     market_sentiment |-> sentiment,
     is_return |-> value < 0]

-----------------------------------------------------------------------------
(* Redis pub/sub as the callers of redis_client.py see it *)

Conns == {"A", "B"}
Channels == {"sales", "alerts", "inventory"}

\* the channel the generator of each kind subscribes to
ChannelOf(kind) ==
    CASE kind = "sales"     -> "sales"
      [] kind = "legacy"    -> "sales"
      [] kind = "alerts"    -> "alerts"
      [] kind = "inventory" -> "inventory"
      [] OTHER              -> "none"

\* publish that ignores the channel name: every subscribed pubsub gets it
PublishOnAnyChannel(queues, ch, m) ==
    [c \in Conns |-> IF f_subscribed[c] THEN Append(queues[c], m) ELSE queues[c]]

\* redis_client.publish(channel, message): the message is appended to the
\* pending messages of every pubsub subscribed to the channel at that moment
PublishOn(queues, ch, m) ==
    [c \in Conns |-> IF f_subscribed[c] /\ ChannelOf(f_kind[c]) = ch
                     THEN Append(queues[c], m) ELSE queues[c]]

\* the messages delivered to the subscription init_redis opens on the sales
\* channel: nothing ever reads that pubsub, so all of them are unread
ProcessPubsubBacklog == published["sales"]

\* a publish that returns only once every subscriber of the channel has
\* read what was delivered to it
PublishReturnsWhenRead(queues, ch) ==
    /\ ch = "sales" => ProcessPubsubBacklog = 0
    /\ \A c \in Conns :
          (f_subscribed[c] /\ ChannelOf(f_kind[c]) = ch) => queues[c] = <<>>

\* await redis_client.publish(...): the reply is the number of receivers;
\* nothing in publish_sale or in the tick waits for a subscriber to read
PublishReturns(queues, ch) == TRUE

-----------------------------------------------------------------------------
(* DataGenerator.start and _generate_and_store_sale, step by step.  The    *)
(* task is suspended only where the code awaits: the statistics query, the *)
(* name lookups, commit, refresh, publish and the sleep.                   *)

NoLocals ==
    /\ class_rand' = 0
    /\ class_force' = 0
    /\ high_return_draw' = 0
    /\ transaction_type' = "none"
    /\ store_id' = 0
    /\ item_id' = 0
    /\ sales_value' = 0

\* start() without the except clause: the exception ends the task
OnTickExceptionPropagates == "dead"

\* a tick that goes on to its publish step after a call of it raised
OnTickExceptionIgnored == "publish"

\* where start() continues when its try block raises: `except Exception`
\* logs and falls through to the sleep
OnTickException == "sleep"

\* start(): self.is_running = True, then the statistics query is awaited
GenStart ==
    /\ gen_pc = "created"
    /\ is_running' = TRUE
    /\ gen_pc' = "loading"
    /\ UNCHANGED <<historical_stats, load_error, market_sentiment, volatility_factor,
                   consecutive_returns, transaction_type, store_id, item_id,
                   sales_value, sale_data, tick_error, return_streak>>
    /\ UNCHANGED <<bus_vars, ga_vars, cache_vars, life_vars, mkt_vars, gr_vars>>
    /\ UNCHANGED <<tick_persisted, tick_published>>
    /\ UNCHANGED <<class_rand, class_force, high_return_draw>>

\* _load_historical_stats returns: one dict entry per row
LoadHistoricalStats ==
    /\ gen_pc = "loading"
    /\ \E rows \in SUBSET HistoricalRows :
          historical_stats' = {StatsOfRow(r) : r \in rows}
    /\ gen_pc' = "loop"
    /\ UNCHANGED <<is_running, load_error, market_sentiment, volatility_factor,
                   consecutive_returns, transaction_type, store_id, item_id,
                   sales_value, sale_data, tick_error, return_streak>>
    /\ UNCHANGED <<bus_vars, ga_vars, cache_vars, life_vars, mkt_vars, gr_vars>>
    /\ UNCHANGED <<tick_persisted, tick_published>>
    /\ UNCHANGED <<class_rand, class_force, high_return_draw>>

\* _load_historical_stats raises (session or query failure): the await in
\* start() is outside the try block, so the exception ends the task
LoadHistoricalStatsFails ==
    /\ gen_pc = "loading"
    /\ load_error' = TRUE
    /\ gen_pc' = "dead"
    /\ UNCHANGED <<is_running, historical_stats, market_sentiment, volatility_factor,
                   consecutive_returns, transaction_type, store_id, item_id,
                   sales_value, sale_data, tick_error, return_streak>>
    /\ UNCHANGED <<bus_vars, ga_vars, cache_vars, life_vars, mkt_vars, gr_vars>>
    /\ UNCHANGED <<tick_persisted, tick_published>>
    /\ UNCHANGED <<class_rand, class_force, high_return_draw>>

\* the body of _update_market_conditions on sentiment and volatility, for
\* the elapsed seconds it computes and the threshold it draws
UpdateMarketState(elapsed, threshold) ==
    IF UpdateDue(elapsed, threshold)
    THEN /\ \E change \in SentimentChangeChoices, shock \in ShockChoices \cup {0} :
               market_sentiment' =
                  IF shock = 0
                  THEN SentimentStep(market_sentiment, change)
                  ELSE SentimentShock(SentimentStep(market_sentiment, change), shock)
         /\ \E v \in VolatilityChoices : volatility_factor' = v
    ELSE UNCHANGED <<market_sentiment, volatility_factor>>

\* while self.is_running: the tick begins with _update_market_conditions.
\* The generator task is not followed against the clock: the elapsed time
\* the tick finds is any of ElapsedChoices.
TickUpdateMarket ==
    /\ gen_pc = "loop"
    /\ is_running
    /\ \E elapsed \in ElapsedChoices, threshold \in ThresholdChoices :
          UpdateMarketState(elapsed, threshold)
    /\ sale_data' = None
    /\ tick_error' = FALSE
    /\ tick_persisted' = 0
    /\ tick_published' = 0
    /\ gen_pc' = "classify"
    /\ UNCHANGED <<is_running, historical_stats, load_error, consecutive_returns,
                   transaction_type, store_id, item_id, sales_value, return_streak>>
    /\ UNCHANGED <<bus_vars, ga_vars, cache_vars, life_vars, mkt_vars, gr_vars>>
    /\ UNCHANGED <<class_rand, class_force, high_return_draw>>

\* transaction_type = self._get_transaction_type()
TickClassify ==
    /\ gen_pc = "classify"
    /\ \E rand \in RandChoices, force_draw \in DrawChoices :
          /\ class_rand' = rand
          /\ class_force' = force_draw
          /\ transaction_type' = GetTransactionType(market_sentiment, rand, force_draw)
    /\ UNCHANGED high_return_draw
    /\ gen_pc' = "sample"
    /\ UNCHANGED <<is_running, historical_stats, load_error, market_sentiment,
                   volatility_factor, consecutive_returns, store_id, item_id,
                   sales_value, sale_data, tick_error, return_streak>>
    /\ UNCHANGED <<bus_vars, ga_vars, cache_vars, life_vars, mkt_vars, gr_vars>>
    /\ UNCHANGED <<tick_persisted, tick_published>>

\* the damping test; store and item are sampled, the high-return override
\* is applied, and the name lookups are awaited.  For an item outside
\* high_return_items the `and` does not evaluate random.random(); the draw
\* recorded for it is one the tick never looks at.
TickSample ==
    /\ gen_pc = "sample"
    /\ \E s \in StoreChoices, i \in ItemChoices, draw \in DrawChoices :
          /\ store_id' = s
          /\ item_id' = i
          /\ high_return_draw' = draw
          /\ transaction_type' =
                HighReturnOverride(i, draw, Damped(consecutive_returns, transaction_type))
    /\ class_rand' = 0
    /\ class_force' = 0
    /\ gen_pc' = "lookup"
    /\ UNCHANGED <<is_running, historical_stats, load_error, market_sentiment,
                   volatility_factor, consecutive_returns, sales_value, sale_data,
                   tick_error, return_streak>>
    /\ UNCHANGED <<bus_vars, ga_vars, cache_vars, life_vars, mkt_vars, gr_vars>>
    /\ UNCHANGED <<tick_persisted, tick_published>>

\* the lookups return; _generate_sale_value computes the value and updates
\* the counter; the Sale is added to the session and commit is awaited
TickGenerateValue ==
    /\ gen_pc = "lookup"
    /\ transaction_type = "return" => consecutive_returns < MaxCounter
    /\ \E base \in (IF transaction_type = "return" THEN {0} ELSE BaseValueChoices),
          noise \in (IF transaction_type = "regular_sale" THEN NoiseChoices ELSE {0}),
          retmag \in (IF transaction_type = "return" THEN ReturnMagnitudeChoices ELSE {0}),
          mult \in MultiplierChoices(transaction_type) :
          sales_value' =
             GenerateSaleValue(StatsGet(historical_stats, <<store_id, item_id>>),
                               transaction_type, base, mult, noise, retmag)
    /\ consecutive_returns' = CountReturns(consecutive_returns, transaction_type)
    /\ high_return_draw' = 0
    /\ gen_pc' = "commit"
    /\ UNCHANGED <<is_running, historical_stats, load_error, market_sentiment,
                   volatility_factor, transaction_type, store_id, item_id,
                   sale_data, tick_error, return_streak>>
    /\ UNCHANGED <<bus_vars, ga_vars, cache_vars, life_vars, mkt_vars, gr_vars>>
    /\ UNCHANGED <<tick_persisted, tick_published>>
    /\ UNCHANGED <<class_rand, class_force>>

\* session.commit() returns: the event is persisted; refresh is awaited
TickCommit ==
    /\ gen_pc = "commit"
    /\ transaction_type = "return" => return_streak < MaxCounter
    /\ return_streak' = IF transaction_type = "return" THEN return_streak + 1 ELSE 0
    /\ tick_persisted' = tick_persisted + 1
    /\ gen_pc' = "refresh"
    /\ UNCHANGED tick_published
    /\ UNCHANGED <<is_running, historical_stats, load_error, market_sentiment,
                   volatility_factor, consecutive_returns, transaction_type,
                   store_id, item_id, sales_value, sale_data, tick_error>>
    /\ UNCHANGED <<bus_vars, ga_vars, cache_vars, life_vars, mkt_vars, gr_vars>>
    /\ UNCHANGED <<class_rand, class_force, high_return_draw>>

\* session.refresh(sale) returns; the payload is built and publish_sale awaited
TickRefresh ==
    /\ gen_pc = "refresh"
    /\ gen_pc' = "publish"
    /\ UNCHANGED <<is_running, historical_stats, load_error, market_sentiment,
                   volatility_factor, consecutive_returns, transaction_type,
                   store_id, item_id, sales_value, sale_data, tick_error,
                   return_streak>>
    /\ UNCHANGED <<bus_vars, ga_vars, cache_vars, life_vars, mkt_vars, gr_vars>>
    /\ UNCHANGED <<tick_persisted, tick_published>>
    /\ UNCHANGED <<class_rand, class_force, high_return_draw>>

\* publish_sale(sale_data) returns; the tick returns sale_data to start(),
\* which logs it and goes to sleep
TickPublish ==
    /\ gen_pc = "publish"
    /\ PublishReturns(f_queue, "sales")
    /\ LET payload == SaleData(store_id, item_id, sales_value, transaction_type,
                               market_sentiment)
       IN  /\ f_queue' = PublishOn(f_queue, "sales", payload)
           /\ sale_data' = payload
    /\ tick_published' = tick_published + 1
    /\ NoLocals
    /\ UNCHANGED tick_persisted
    /\ gen_pc' = "sleep"
    /\ UNCHANGED <<is_running, historical_stats, load_error, market_sentiment,
                   volatility_factor, consecutive_returns, tick_error, return_streak>>
    /\ UNCHANGED <<published, f_kind, f_pc, f_subscribed, f_closed, f_sub_at,
                   f_frames, f_client>>
    /\ UNCHANGED <<ga_vars, cache_vars, life_vars, mkt_vars, gr_vars>>

\* a call of the tick raises (the classifier or the session factory, the
\* name lookups, commit, refresh or publish): the exception leaves
\* _generate_and_store_sale and is caught
TickFails ==
    /\ gen_pc \in {"classify", "sample", "lookup", "commit", "refresh", "publish"}
    /\ tick_error' = TRUE
    /\ NoLocals
    /\ gen_pc' = OnTickException
    /\ UNCHANGED <<is_running, historical_stats, load_error, market_sentiment,
                   volatility_factor, consecutive_returns, sale_data, return_streak>>
    /\ UNCHANGED <<bus_vars, ga_vars, cache_vars, life_vars, mkt_vars, gr_vars>>
    /\ UNCHANGED <<tick_persisted, tick_published>>

\* asyncio.sleep(max(3, base_interval + variation)) returns
TickSleep ==
    /\ gen_pc = "sleep"
    /\ gen_pc' = "loop"
    /\ UNCHANGED <<is_running, historical_stats, load_error, market_sentiment,
                   volatility_factor, consecutive_returns, transaction_type,
                   store_id, item_id, sales_value, sale_data, tick_error,
                   return_streak>>
    /\ UNCHANGED <<bus_vars, ga_vars, cache_vars, life_vars, mkt_vars, gr_vars>>
    /\ UNCHANGED <<tick_persisted, tick_published>>
    /\ UNCHANGED <<class_rand, class_force, high_return_draw>>

-----------------------------------------------------------------------------
(* services/cache.py: the Redis-backed response cache.  Time is in seconds. *)

\* the clock is followed up to MaxTime seconds
MaxTime == 30
\* promotion writes explored
MaxWrites == 2

\* the endpoints that cache their response, by cache prefix
Ops == {"kpis", "alerts_summary", "promotions_summary", "inventory_summary"}

\* CACHE_TTL, for the prefixes above
CACHE_TTL ==
    [kpis |-> 15, alerts_summary |-> 30, promotions_summary |-> 60,
     inventory_summary |-> 60]

\* a prefix as its "_"-separated parts
PrefixParts(op) ==
    CASE op = "kpis"               -> <<"kpis">>
      [] op = "alerts_summary"     -> <<"alerts", "summary">>
      [] op = "promotions_summary" -> <<"promotions", "summary">>
      [] op = "inventory_summary"  -> <<"inventory", "summary">>

\* generate_cache_key(prefix, **kwargs): "cache:<prefix>:<digest>"; every
\* endpoint is called with one parameter set, whose digest is "h"
generate_cache_key(op) == <<"cache", PrefixParts(op), "h">>

CacheKeys == {generate_cache_key(op) : op \in Ops}

\* redis KEYS "cache:<first>_*:*": the keys whose prefix starts with "<first>_"
KeysMatching(store, first) ==
    {k \in DOMAIN store :
        /\ store[k] # None
        /\ k[1] = "cache"
        /\ Len(k[2]) >= 2
        /\ k[2][1] = first}

\* cache.py bound to the client init_redis creates
RedisClientAfterInit == [url |-> "redis_url"]

\* the value redis_client has when main.py imports the routes, and with them
\* cache.py: the module global before init_redis has run
RedisClientAtImport == None

\* the client init_redis stores in the module global
RedisFromUrl == [url |-> "redis_url"]

\* json.loads(json.dumps(value, default=str)): a date comes back as a string
JsonRoundTrip(value) ==
    IF value.dates = "date" THEN [value EXCEPT !.dates = "str"] ELSE value

\* redis GET at time t: an entry is gone once its expiry time is reached
RedisGet(store, key, t) ==
    IF store[key] # None /\ t < store[key].expires THEN store[key].value ELSE None

\* the outcome of a call that raises to its caller
Raised == [raised |-> TRUE]

\* get_cached without `if redis_client` and without the try: the attribute
\* error of None and the backend error reach the caller
GetCachedUnguarded(client, store, key, t, backend_fails) ==
    IF client = None \/ backend_fails THEN Raised
    ELSE RedisGet(store, key, t)

\* get_cached(key): None without a client, on a backend error (caught and
\* logged) and on a miss
GetCached(client, store, key, t, backend_fails) ==
    IF client = None THEN None
    ELSE IF backend_fails THEN None
    ELSE RedisGet(store, key, t)

\* set_cached(key, value, ttl): SET key value EX ttl; nothing without a
\* client or on a backend error
SetCached(client, store, key, value, ttl, t, backend_fails) ==
    IF client = None \/ backend_fails THEN store
    ELSE [store EXCEPT ![key] = [value |-> JsonRoundTrip(value), expires |-> t + ttl]]

\* delete_cached(pattern): KEYS then DEL; nothing without a client or on a
\* backend error
DeleteCached(client, store, first, backend_fails) ==
    IF client = None \/ backend_fails THEN store
    ELSE [k \in DOMAIN store |->
             IF k \in KeysMatching(store, first) THEN None ELSE store[k]]

\* what the endpoint of `op` computes from the database
Compute(op, version) ==
    [op |-> op,
     version |-> IF op = "promotions_summary" THEN version ELSE 0,
     dates |-> IF op = "kpis" THEN "date" ELSE "none"]

\* what its except branch returns when the computation raises
Fallback(op) == [op |-> op, version |-> -1, dates |-> "none"]

\* get_kpis serialises its dates before set_cached (cache_data)
CacheData(value) ==
    IF value.dates = "date" THEN [value EXCEPT !.dates = "iso"] ELSE value

\* get_kpis parses the cached ISO strings back (date.fromisoformat)
ParseCached(value) ==
    IF value.dates = "iso" THEN [value EXCEPT !.dates = "date"] ELSE value

\* the endpoint returns the cached value when it has one, else what it
\* computed
EndpointResult(cached, computed) ==
    IF cached # None THEN ParseCached(cached) ELSE computed

\* the application after startup: cache.py was imported before init_redis ran
CacheInit ==
    /\ redis_client = RedisFromUrl
    /\ cache_redis_client = RedisClientAtImport
    /\ cache_store = [k \in CacheKeys |-> None]
    /\ now = 0
    /\ db_version = 0
    /\ ep_pc = "idle"
    /\ ep_op = "none"
    /\ ep_cached = None
    /\ ep_got_at = 0
    /\ ep_computed = None
    /\ ep_result = None
    /\ last_set = None
    /\ w_pc = "idle"

GenInit ==
    /\ gen_pc = "created"
    /\ is_running = FALSE
    /\ historical_stats = {}
    /\ load_error = FALSE
    /\ market_sentiment = 100
    /\ volatility_factor = 100
    /\ consecutive_returns = 0
    /\ class_rand = 0
    /\ class_force = 0
    /\ high_return_draw = 0
    /\ transaction_type = "none"
    /\ store_id = 0
    /\ item_id = 0
    /\ sales_value = 0
    /\ sale_data = None
    /\ tick_error = FALSE
    /\ return_streak = 0
    /\ tick_persisted = 0
    /\ tick_published = 0

BusInit ==
    /\ published = [ch \in Channels |-> 0]
    /\ f_kind = [c \in Conns |-> "none"]
    /\ f_pc = [c \in Conns |-> "new"]
    /\ f_subscribed = [c \in Conns |-> FALSE]
    /\ f_closed = [c \in Conns |-> FALSE]
    /\ f_sub_at = [c \in Conns |-> 0]
    /\ f_queue = [c \in Conns |-> <<>>]
    /\ f_frames = [c \in Conns |-> <<>>]
    /\ f_client = [c \in Conns |-> TRUE]

\* lifespan has finished startup and is suspended at its yield
LifeInit ==
    /\ app_pc = "serving"
    /\ db_closed = FALSE
    /\ redis_closed = FALSE

\* __init__: self.last_sentiment_update = datetime.now()
MktInit ==
    /\ clock = 0
    /\ last_sentiment_update = 0

\* no request of generate_returns has been made
GrInit ==
    /\ gr_pc = "idle"
    /\ gr_i = 0
    /\ gr_pending = {}
    /\ sales_table = {}

GaInit ==
    /\ ga_pc = "idle"
    /\ ga_alerts = <<>>
    /\ ga_alert_id = 1
    /\ ga_failed = {}
    /\ ga_daily_sales = {}
    /\ ga_store_sales = {}

Init == GenInit /\ BusInit /\ GaInit /\ CacheInit /\ LifeInit /\ MktInit /\ GrInit

GenNext ==
    \/ GenStart
    \/ LoadHistoricalStats
    \/ LoadHistoricalStatsFails
    \/ TickUpdateMarket
    \/ TickClassify
    \/ TickSample
    \/ TickGenerateValue
    \/ TickCommit
    \/ TickRefresh
    \/ TickPublish
    \/ TickFails
    \/ TickSleep

\* the generator task alone
GenSpec == Init /\ [][GenNext]_vars

-----------------------------------------------------------------------------
(* Properties of the generator *)

\* C1: no more than 5 consecutive generated events have category return:
\* after 5 consecutive returns the next persisted event is not a return.
C1_AtMostFiveConsecutiveReturns == return_streak <= 5

\* C7: the persisted quantity is negative exactly when the tick's final
\* category is return, and it is never zero; the published payload's
\* is_return flag is true exactly for the events of category return.
C7_QuantitySignMatchesCategory ==
    /\ gen_pc \in {"refresh", "publish"} =>
          /\ (sales_value < 0) <=> (transaction_type = "return")
          /\ sales_value # 0
    /\ sale_data # None =>
          /\ (sale_data.sales < 0) <=> (sale_data.transaction_type = "return")
          /\ sale_data.sales # 0
          /\ sale_data.is_return <=> (sale_data.transaction_type = "return")

\* a return and a sale have both been published, the return from the profile
\* whose historical max is 1
C7_Witness ==
    /\ sale_data # None
    /\ sale_data.transaction_type = "return"
    /\ sale_data.sales = -1
    /\ sale_data.is_return
    /\ sale_data.item_id = 1
    /\ historical_stats # {}

\* C8: a failure inside one tick never terminates the generator loop: the
\* exception is caught, the loop sleeps and is ready to run the next tick;
\* the task never ends because of a tick.
C8_FailedTickContinuesLoop ==
    /\ [][TickFails => (gen_pc' = "sleep" /\ is_running' /\ tick_error')]_vars
    /\ [](gen_pc = "sleep" => ENABLED TickSleep)
    /\ [](gen_pc = "loop" => ENABLED TickUpdateMarket)
    /\ [](gen_pc = "dead" => load_error)

\* a tick has failed, the loop has slept and is about to run the next tick,
\* with returns already counted before the failure
C8_Witness ==
    /\ gen_pc = "loop"
    /\ tick_error
    /\ return_streak >= 2

\* C9: a failure of the statistics load at startup does not end the
\* generator task: it enters the tick loop with an empty profile store.
C9_LoadFailureNotFatal ==
    load_error => (gen_pc # "dead" /\ historical_stats = {})

\* C16: from sentiment 1.0 and volatility 1.0, after any number of market
\* updates, normal steps and shocks in any order, sentiment stays within
\* [0.3, 1.8] and volatility within [0.8, 1.6].
C16_MarketStateInRange ==
    /\ 30 <= market_sentiment /\ market_sentiment <= 180
    /\ 80 <= volatility_factor /\ volatility_factor <= 160

\* an update with a shock has taken the sentiment to its upper limit
C16_Witness ==
    /\ gen_pc = "classify"
    /\ market_sentiment = 180
    /\ volatility_factor = 159

\* C17: for a profile with historical max M >= 1 and any sampled noise, a
\* non-return tick yields an integer quantity q with 1 <= q <= 2*M, and a
\* return tick yields q with 1 <= -q <= max(1, 0.8*M).
C17_QuantityWithinProfileBounds ==
    gen_pc = "commit" =>
       LET M == StatsGet(historical_stats, <<store_id, item_id>>).max
       IN  M >= 1 =>
              IF transaction_type = "return"
              THEN 1 <= -sales_value /\ -sales_value * 10 <= Max(10, 8 * M)
              ELSE 1 <= sales_value /\ sales_value <= 2 * M

\* a bulk purchase on the default profile was capped at twice its max
C17_Witness ==
    /\ gen_pc = "commit"
    /\ transaction_type = "bulk_purchase"
    /\ StatsGet(historical_stats, <<store_id, item_id>>).max = 100
    /\ sales_value = 200

\* the category of the neutral regime for the draw u (hundredths)
NeutralCategory(u) ==
    IF u <= 62 THEN "regular_sale"
    ELSE IF u <= 74 THEN "promotional_sale"
    ELSE IF u <= 89 THEN "return"
    ELSE IF u <= 95 THEN "bulk_purchase"
    ELSE "slow_period"

\* C18: in the neutral regime (0.8 <= sentiment <= 1.3), when the forced
\* return does not fire, the classifier maps its draw u to regular_sale
\* for u <= 0.62, promotional_sale for 0.62 < u <= 0.74, return for
\* 0.74 < u <= 0.89, bulk_purchase for 0.89 < u <= 0.95 and slow_period
\* above, i.e. with probabilities 0.62, 0.12, 0.15, 0.06 and 0.05.
C18_NeutralRegimeMapping ==
    ( /\ gen_pc = "sample"
      /\ 80 <= market_sentiment /\ market_sentiment <= 130
      /\ class_force >= 15 )
    => transaction_type = NeutralCategory(class_rand)

\* the classifier has returned at the lower edge of the neutral regime with
\* a draw on the border of the return interval
C18_Witness ==
    /\ gen_pc = "sample"
    /\ market_sentiment = 80
    /\ class_force >= 15
    /\ class_rand = 89
    /\ transaction_type = "return"

\* C20: a tick persists at most one Sale and publishes at most one message
\* on the sales channel, and it publishes only after the commit of that Sale
\* has succeeded: nothing is published for a tick whose commit failed.
C20_PublishOnlyAfterCommit ==
    /\ tick_persisted <= 1
    /\ tick_published <= 1
    /\ tick_published <= tick_persisted
    /\ gen_pc \in {"classify", "sample", "lookup", "commit"} =>
          (tick_persisted = 0 /\ tick_published = 0)

\* a tick has committed its return and then published it
C20_Witness ==
    /\ gen_pc = "sleep"
    /\ tick_persisted = 1
    /\ tick_published = 1
    /\ sale_data # None
    /\ sale_data.is_return

\* C21: in a tick whose sampled product is one of 5, 12, 18, 25, 33, 41, 48
\* and whose 15% draw fires, the final category is return whatever the
\* classifier and the damping decided; for every other product the override
\* leaves the category as the damping left it.  The category is final: the
\* rest of the tick does not change it.
C21_HighReturnOverride ==
    /\ [][TickSample =>
            LET before == Damped(consecutive_returns, transaction_type)
            IN  /\ (item_id' \in {5, 12, 18, 25, 33, 41, 48} /\ high_return_draw' < 15)
                      => transaction_type' = "return"
                /\ item_id' \notin {5, 12, 18, 25, 33, 41, 48}
                      => transaction_type' = before]_vars
    /\ [][(TickGenerateValue \/ TickCommit \/ TickRefresh)
             => transaction_type' = transaction_type]_vars

\* the override has made a return of a tick on item 5 that the damping had
\* turned into a regular sale after 5 returns
C21_Witness ==
    /\ gen_pc = "lookup"
    /\ item_id = 5
    /\ high_return_draw < 15
    /\ consecutive_returns >= 5
    /\ transaction_type = "return"

\* random.random() is uniform on [0, 1): cell k stands for the draws in
\* ((k-1)/100, k/100], which the loop maps alike because every cumulative
\* weight is a multiple of 1/100
DrawCells == 1..100

\* the probability, in hundredths, that the loop of _get_transaction_type
\* returns ttype when the forced return does not fire
SelectionProbability(sentiment, ttype) ==
    Cardinality({k \in DrawCells : GetTransactionType(sentiment, k, 15) = ttype})

\* C22: in the pessimistic regime (sentiment < 0.8), when the forced return
\* does not fire, the single uniform draw selects regular_sale with
\* probability 0.55, promotional_sale 0.12, return 0.20, bulk_purchase 0.06
\* and slow_period 0.10.
C22_PessimisticRegimeProbabilities ==
    (gen_pc = "sample" /\ market_sentiment < 80 /\ class_force >= 15) =>
       /\ SelectionProbability(market_sentiment, "regular_sale") = 55
       /\ SelectionProbability(market_sentiment, "promotional_sale") = 12
       /\ SelectionProbability(market_sentiment, "return") = 20
       /\ SelectionProbability(market_sentiment, "bulk_purchase") = 6
       /\ SelectionProbability(market_sentiment, "slow_period") = 10

\* C27: after any sequence of ticks, failed ticks included, the counter
\* consecutive_returns equals the number of returns at the end of the
\* sequence of persisted generator events.
C27_CounterMatchesPersistedReturns ==
    gen_pc \in {"sleep", "loop"} => consecutive_returns = return_streak

-----------------------------------------------------------------------------
(* The SSE generators: event_generator, alerts_event_generator and         *)
(* inventory_event_generator of routes/stream.py and event_generator of    *)
(* routes/streaming.py ("legacy").  A generator is suspended at its yields *)
(* and at its awaits; f_pc names the suspension point:                     *)
(*   "acked"         at the yield of the connected frame (before try)      *)
(*   "initial"       at a yield of the initial alert batch (before try)    *)
(*   "poll"          in the try block, at the awaits of one loop iteration *)
(*                   (is_disconnected, get_message, sleep)                 *)
(*   "yielded"       in the try block, at the yield of a channel message   *)
(*   "yielded_local" in the try block, at the yield of an alert or update  *)
(*                   the loop generated itself                             *)
(*   "done"          the generator has ended                               *)

Kinds == {"sales", "alerts", "inventory", "legacy"}

\* the event name each generator gives its data frames
EventOf(kind) ==
    CASE kind = "sales"     -> "sales"
      [] kind = "legacy"    -> "new_sale"
      [] kind = "alerts"    -> "alert"
      [] kind = "inventory" -> "inventory_update"

ConnectedFrame == [event |-> "connected", data |-> 0, via |-> "ack"]
\* a frame carrying the channel message `id`, read from the pubsub
BusFrame(kind, id) == [event |-> EventOf(kind), data |-> id, via |-> "bus"]
\* a frame the loop builds from its own generate_live_alert() or
\* generate_inventory_update(); id is 0 when the item was never published
LocalFrame(kind, id) == [event |-> EventOf(kind), data |-> id, via |-> "direct"]

TotalPublished == published["sales"] + published["alerts"] + published["inventory"]

\* the suspension points inside `try: ... finally:` of the generators
InTry(pc) == pc \in {"poll", "yielded", "yielded_local"}

\* the number of frames of the initial alert batch yielded so far
InitialYielded(c) ==
    Cardinality({i \in 1..Len(f_frames[c]) :
                    f_frames[c][i].via = "direct" /\ f_frames[c][i].data = 0})

\* the loop reads the message and yields nothing
ForwardNothing(frames, kind, message) == frames

\* if message and message['type'] == 'message': yield {"event": ..., "data": data}
ForwardMessage(frames, kind, message) == Append(frames, BusFrame(kind, message))

\* the pending messages of a pubsub right after subscribe
SubscribeQueue(ch) == <<>>

\* the request arrives and the generator runs to its first suspension point:
\* pubsub = redis.pubsub(); await pubsub.subscribe(channel); then the yield
\* of the connected frame (stream.py) or the try block (streaming.py)
Connect(c, kind) ==
    /\ f_pc[c] = "new"
    /\ f_kind' = [f_kind EXCEPT ![c] = kind]
    /\ f_subscribed' = [f_subscribed EXCEPT ![c] = TRUE]
    /\ f_sub_at' = [f_sub_at EXCEPT ![c] = published[ChannelOf(kind)]]
    /\ f_queue' = [f_queue EXCEPT ![c] = SubscribeQueue(ChannelOf(kind))]
    /\ IF kind = "legacy"
       THEN /\ f_pc' = [f_pc EXCEPT ![c] = "poll"]
            /\ UNCHANGED f_frames
       ELSE /\ f_pc' = [f_pc EXCEPT ![c] = "acked"]
            /\ f_frames' = [f_frames EXCEPT ![c] = Append(@, ConnectedFrame)]
    /\ UNCHANGED <<published, f_closed, f_client>>
    /\ UNCHANGED <<gen_vars, ga_vars, cache_vars, life_vars, mkt_vars, gr_vars>>

\* the finally block of generators that share one pubsub per channel: the
\* unsubscribe ends the subscription of every connection of the channel
FinallyOnSharedPubsub(c) ==
    /\ f_subscribed' = [d \in Conns |->
                           IF ChannelOf(f_kind[d]) = ChannelOf(f_kind[c])
                           THEN FALSE ELSE f_subscribed[d]]
    /\ f_closed' = [f_closed EXCEPT ![c] = TRUE]
    /\ f_pc' = [f_pc EXCEPT ![c] = "done"]

\* finally: await pubsub.unsubscribe(channel); await pubsub.close()
Finally(c) ==
    /\ f_subscribed' = [f_subscribed EXCEPT ![c] = FALSE]
    /\ f_closed' = [f_closed EXCEPT ![c] = TRUE]
    /\ f_pc' = [f_pc EXCEPT ![c] = "done"]

\* The rest of a loop iteration after the message test.  alert_counter and
\* update_counter are compared with a fresh random threshold in every
\* iteration; the model keeps no counter and lets the comparison go either
\* way (`trigger`).  When it fires, the alerts loop publishes a new alert on
\* the alerts channel and yields it, the inventory loop publishes an update
\* on the inventory channel and yields it; otherwise the loop sleeps and
\* starts the next iteration.
RestOfIteration(c, trigger) ==
    IF trigger /\ f_kind[c] \in {"alerts", "inventory"}
    THEN LET ch == ChannelOf(f_kind[c])
             id == published[ch] + 1
         IN  /\ TotalPublished < MaxMsgs
             /\ published' = [published EXCEPT ![ch] = id]
             /\ f_queue' = PublishOn(f_queue, ch, id)
             /\ f_frames' = [f_frames EXCEPT ![c] = Append(@, LocalFrame(f_kind[c], id))]
             /\ f_pc' = [f_pc EXCEPT ![c] = "yielded_local"]
    ELSE /\ trigger = FALSE
         /\ f_pc' = [f_pc EXCEPT ![c] = "poll"]
         /\ UNCHANGED <<published, f_queue, f_frames>>

\* the consumer asks for the next frame while the generator is suspended at
\* a yield: the generator runs to its next suspension point
Resume(c) ==
    /\ f_pc[c] \in {"acked", "initial", "yielded", "yielded_local"}
    /\ CASE f_pc[c] \in {"acked", "initial"} ->
               \* alerts: the initial batch of 3 generated alerts, then try
               IF f_kind[c] = "alerts" /\ InitialYielded(c) < 3
               THEN /\ f_frames' = [f_frames EXCEPT ![c] = Append(@, LocalFrame("alerts", 0))]
                    /\ f_pc' = [f_pc EXCEPT ![c] = "initial"]
                    /\ UNCHANGED <<published, f_queue>>
               ELSE /\ f_pc' = [f_pc EXCEPT ![c] = "poll"]
                    /\ UNCHANGED <<published, f_queue, f_frames>>
         [] f_pc[c] = "yielded" ->
               \E trigger \in BOOLEAN : RestOfIteration(c, trigger)
         [] f_pc[c] = "yielded_local" ->
               \* inventory: a low or out-of-stock update also publishes an alert
               \E low \in BOOLEAN :
                  IF low /\ f_kind[c] = "inventory"
                  THEN /\ TotalPublished < MaxMsgs
                       /\ published' = [published EXCEPT !["alerts"] = @ + 1]
                       /\ f_queue' = PublishOn(f_queue, "alerts", published["alerts"] + 1)
                       /\ f_pc' = [f_pc EXCEPT ![c] = "poll"]
                       /\ UNCHANGED f_frames
                  ELSE /\ low = FALSE
                       /\ f_pc' = [f_pc EXCEPT ![c] = "poll"]
                       /\ UNCHANGED <<published, f_queue, f_frames>>
    /\ UNCHANGED <<f_kind, f_subscribed, f_closed, f_sub_at, f_client>>
    /\ UNCHANGED <<gen_vars, ga_vars, cache_vars, life_vars, mkt_vars, gr_vars>>

\* one loop iteration up to its yield: the disconnect test, then get_message
Poll(c) ==
    /\ f_pc[c] = "poll"
    /\ IF ~f_client[c]
       THEN \* if await request.is_disconnected(): break
            /\ Finally(c)
            /\ UNCHANGED <<published, f_queue, f_frames>>
       ELSE IF f_queue[c] # <<>>
       THEN \* message['type'] == 'message': yield it
            /\ f_frames' = [f_frames EXCEPT ![c] = ForwardMessage(@, f_kind[c], Head(f_queue[c]))]
            /\ f_queue' = [f_queue EXCEPT ![c] = Tail(@)]
            /\ f_pc' = [f_pc EXCEPT ![c] = "yielded"]
            /\ UNCHANGED <<published, f_subscribed, f_closed>>
       ELSE \* get_message timed out
            /\ \E trigger \in BOOLEAN : RestOfIteration(c, trigger)
            /\ UNCHANGED <<f_subscribed, f_closed>>
    /\ UNCHANGED <<f_kind, f_sub_at, f_client>>
    /\ UNCHANGED <<gen_vars, ga_vars, cache_vars, life_vars, mkt_vars, gr_vars>>

\* get_message (or another await of the try block) raises: finally runs
PollFails(c) ==
    /\ f_pc[c] = "poll"
    /\ Finally(c)
    /\ UNCHANGED <<published, f_kind, f_sub_at, f_queue, f_frames, f_client>>
    /\ UNCHANGED <<gen_vars, ga_vars, cache_vars, life_vars, mkt_vars, gr_vars>>

\* the response is torn down while the generator is suspended: the pending
\* await is cancelled or the generator is closed at its yield.  The finally
\* block runs only when the suspension point is inside the try statement.
Cancel(c) ==
    /\ f_pc[c] \in {"acked", "initial", "poll", "yielded", "yielded_local"}
    /\ IF InTry(f_pc[c])
       THEN Finally(c)
       ELSE /\ f_pc' = [f_pc EXCEPT ![c] = "done"]
            /\ UNCHANGED <<f_subscribed, f_closed>>
    /\ UNCHANGED <<published, f_kind, f_sub_at, f_queue, f_frames, f_client>>
    /\ UNCHANGED <<gen_vars, ga_vars, cache_vars, life_vars, mkt_vars, gr_vars>>

\* the client goes away
ClientDisconnects(c) ==
    /\ f_pc[c] \notin {"new", "done"}
    /\ f_client[c]
    /\ f_client' = [f_client EXCEPT ![c] = FALSE]
    /\ UNCHANGED <<published, f_kind, f_pc, f_subscribed, f_closed, f_sub_at,
                   f_queue, f_frames>>
    /\ UNCHANGED <<gen_vars, ga_vars, cache_vars, life_vars, mkt_vars, gr_vars>>

\* publish_sale(sale_data), as the generator tick (and generate_returns)
\* calls it: the next message of the sales channel
PublishSale ==
    /\ TotalPublished < MaxMsgs
    /\ PublishReturns(f_queue, "sales")
    /\ published' = [published EXCEPT !["sales"] = @ + 1]
    /\ f_queue' = PublishOn(f_queue, "sales", published["sales"] + 1)
    /\ UNCHANGED <<f_kind, f_pc, f_subscribed, f_closed, f_sub_at, f_frames, f_client>>
    /\ UNCHANGED <<gen_vars, ga_vars, cache_vars, life_vars, mkt_vars, gr_vars>>

StreamNext ==
    \/ PublishSale
    \/ \E c \in Conns, kind \in Kinds : Connect(c, kind)
    \/ \E c \in Conns : Resume(c)
    \/ \E c \in Conns : Poll(c)
    \/ \E c \in Conns : PollFails(c)
    \/ \E c \in Conns : Cancel(c)
    \/ \E c \in Conns : ClientDisconnects(c)

\* the channels and the streaming connections
StreamSpec == Init /\ [][StreamNext]_vars

\* the connections of the sales channel only: /stream/sales and /api/stream
SalesStreamNext ==
    \/ PublishSale
    \/ \E c \in Conns, kind \in {"sales", "legacy"} : Connect(c, kind)
    \/ \E c \in Conns : Resume(c)
    \/ \E c \in Conns : Poll(c)
    \/ \E c \in Conns : PollFails(c)
    \/ \E c \in Conns : Cancel(c)
    \/ \E c \in Conns : ClientDisconnects(c)

\* The event loop runs every generator that is ready, and the response keeps
\* asking a generator for frames until it ends; the publisher is not forced
\* to publish.
LiveSalesStreamSpec ==
    /\ Init
    /\ [][SalesStreamNext]_vars
    /\ \A c \in Conns : WF_vars(Resume(c)) /\ WF_vars(Poll(c))

-----------------------------------------------------------------------------
(* Properties of the streaming connections *)

IsBus(frame) == frame.via = "bus"

\* the ids of the channel messages connection c has read from its pubsub and
\* forwarded, in the order of the frames
BusIds(c) ==
    LET sel == SelectSeq(f_frames[c], IsBus)
    IN  [i \in 1..Len(sel) |-> sel[i].data]

\* the ids m+1, ..., n in order
IdsFrom(m, n) == [i \in 1..(IF n > m THEN n - m ELSE 0) |-> m + i]

IsPrefix(s, t) == Len(s) <= Len(t) /\ \A i \in 1..Len(s) : s[i] = t[i]

SeqRange(s) == {s[i] : i \in 1..Len(s)}

\* C2: a generator that has subscribed and has ended has unsubscribed and
\* closed its pubsub, whatever path made it end.
C2_EndedFanoutReleased ==
    \A c \in Conns : f_pc[c] = "done" => (~f_subscribed[c] /\ f_closed[c])

\* C3: the frames of every connection begin with exactly one connected
\* frame, and every data frame comes after it.
C3_ConnectedFrameFirst ==
    \A c \in Conns :
       f_frames[c] # <<>> =>
          /\ f_frames[c][1].event = "connected"
          /\ \A i \in 2..Len(f_frames[c]) : f_frames[c][i].event # "connected"

\* C4: a subscriber is forwarded only messages published on its channel
\* after it subscribed: what it has forwarded from the pubsub, followed by
\* what is still pending, is exactly the messages published since its
\* subscription, none of the earlier ones.
C4_OnlyMessagesAfterSubscription ==
    \A c \in Conns :
       f_kind[c] # "none" =>
          LET since == IdsFrom(f_sub_at[c], published[ChannelOf(f_kind[c])])
          IN  /\ \A i \in 1..Len(f_frames[c]) :
                    f_frames[c][i].via = "bus" => f_frames[c][i].data > f_sub_at[c]
              /\ f_subscribed[c] => BusIds(c) \o f_queue[c] = since
              /\ ~f_subscribed[c] => IsPrefix(BusIds(c), since)

\* 3 messages on sales, B subscribed after message 1: A has been forwarded
\* 1, 2, 3 and B exactly 2, 3
C4_Witness ==
    /\ f_kind["A"] = "sales" /\ f_kind["B"] = "sales"
    /\ f_sub_at["A"] = 0 /\ f_sub_at["B"] = 1
    /\ published["sales"] = 3
    /\ BusIds("A") = <<1, 2, 3>>
    /\ BusIds("B") = <<2, 3>>

\* C5: the data frames of a connection carry the channel's messages in
\* publish order: a message is never forwarded for the first time after a
\* message published later.
C5_FramesInPublishOrder ==
    \A c \in Conns :
       \A i, j \in 1..Len(f_frames[c]) :
          (/\ i < j
           /\ f_frames[c][i].data # 0
           /\ f_frames[c][j].data # 0
           /\ f_frames[c][j].data < f_frames[c][i].data)
          => \E k \in 1..(i - 1) : f_frames[c][k].data = f_frames[c][j].data

\* C6: a sales message delivered to the pubsub of a connected sales client
\* is eventually forwarded to it, unless its generator ends first.
C6_PublishedSaleEventuallyForwarded ==
    \A c \in Conns : \A m \in 1..MaxMsgs :
       (/\ f_kind[c] \in {"sales", "legacy"}
        /\ f_subscribed[c]
        /\ m \in SeqRange(f_queue[c]))
       ~> (f_pc[c] = "done" \/ m \in SeqRange(BusIds(c)))

\* a client of the legacy stream, still connected, has been forwarded the
\* two sales published after it subscribed
C6_Witness ==
    /\ f_kind["A"] = "legacy"
    /\ f_client["A"]
    /\ f_pc["A"] # "done"
    /\ f_sub_at["A"] = 1
    /\ BusIds("A") = <<2, 3>>

C28_EachMessageAtMostOnce ==
    \A c \in Conns :
       f_kind[c] \in {"alerts", "inventory"} =>
          \A i, j \in 1..Len(f_frames[c]) :
             (i < j /\ f_frames[c][i].data # 0)
                => f_frames[c][i].data # f_frames[c][j].data

-----------------------------------------------------------------------------
(* DataSyncService.generate_alerts_from_sales: three queries in sequence,  *)
(* each awaited.  A query works on the sales table as it is at the call;   *)
(* the model gives each query the aggregates it computes over that table.  *)

\* recent_sales rows of the low stock query: SUM(sales) and AVG(sales) of one
\* (store, item) over 30 days
LowStockAggregates ==
    { [item |-> 1, total_sold |-> 6000, avg_daily_sales |-> 60],
      [item |-> 2, total_sold |-> 2000, avg_daily_sales |-> 60],
      [item |-> 3, total_sold |-> 3900, avg_daily_sales |-> 30],
      [item |-> 4, total_sold |-> 100,  avg_daily_sales |-> 5],
      [item |-> 5, total_sold |-> 3825, avg_daily_sales |-> 50],
      [item |-> 6, total_sold |-> 4100, avg_daily_sales |-> 51],
      [item |-> 7, total_sold |-> 3600, avg_daily_sales |-> 20],
      [item |-> 8, total_sold |-> 3810, avg_daily_sales |-> 21],
      [item |-> 9, total_sold |-> 3500, avg_daily_sales |-> 5] }

\* inventory_calc.quantity: GREATEST(0, CASE ... END)
EstimatedQuantity(r) ==
    Max(0, IF r.avg_daily_sales > 50 THEN 500 - Trunc(r.total_sold, 10)
           ELSE IF r.avg_daily_sales > 20 THEN 300 - Trunc(r.total_sold, 15)
           ELSE 200 - Trunc(r.total_sold, 20))

\* the tiers with inclusive limits
ReorderLevelInclusive(r) ==
    IF r.avg_daily_sales >= 50 THEN 100
    ELSE IF r.avg_daily_sales >= 20 THEN 50
    ELSE 25

\* inventory_calc.reorder_level
ReorderLevel(r) ==
    IF r.avg_daily_sales > 50 THEN 100
    ELSE IF r.avg_daily_sales > 20 THEN 50
    ELSE 25

RECURSIVE SortByQuantity(_)
\* ORDER BY quantity ASC over a set of rows with distinct quantities
SortByQuantity(rows) ==
    IF rows = {} THEN <<>>
    ELSE LET first == CHOOSE r \in rows : \A q \in rows : r.quantity <= q.quantity
         IN  <<first>> \o SortByQuantity(rows \ {first})

\* SubSeq(s, 1, n) when s is longer than n
Limit(s, n) == IF Len(s) > n THEN SubSeq(s, 1, n) ELSE s

\* the rows the low stock query returns
LowStockRows(aggregates) ==
    LET calc == { [item |-> r.item, quantity |-> EstimatedQuantity(r),
                   reorder_level |-> ReorderLevel(r)] : r \in aggregates }
    IN  Limit(SortByQuantity({ r \in calc : r.quantity <= r.reorder_level }), 10)

\* the alert built from one row of the low stock query
LowStockAlert(row, id) ==
    [id |-> id, alert_type |-> "inventory",
     severity |-> IF row.quantity <= 0 THEN "critical" ELSE "warning",
     message |-> [quantity |-> row.quantity, reorder_level |-> row.reorder_level],
     item |-> row.item, detector |-> "low_stock"]

\* daily_sales joined with sales_stats: for a (store, item) of the 7-day
\* window, the row of its most recent day (day 7 is today) with the AVG and
\* STDDEV of the pair
AnomalyCandidates ==
    { [item |-> 1, date |-> 7, sales |-> 50, avg_sales |-> 20, stddev_sales |-> 10],
      [item |-> 2, date |-> 7, sales |-> 2,  avg_sales |-> 20, stddev_sales |-> 5],
      [item |-> 3, date |-> 7, sales |-> 25, avg_sales |-> 20, stddev_sales |-> 10],
      [item |-> 4, date |-> 6, sales |-> 60, avg_sales |-> 20, stddev_sales |-> 10] }

\* WHERE ds.date = (SELECT MAX(date) FROM daily_sales): the latest date of
\* the whole window, not of the pair
OnLatestDate(candidates) ==
    { r \in candidates : \A q \in candidates : q.date <= r.date }

Abs(x) == IF x < 0 THEN -x ELSE x

\* WHERE ss.stddev_sales > 0 AND ABS(ds.sales - ss.avg_sales) > 2 * ss.stddev_sales
IsAnomaly(r) ==
    r.stddev_sales > 0 /\ Abs(r.sales - r.avg_sales) > 2 * r.stddev_sales

AnomalyAlert(row, id) ==
    [id |-> id, alert_type |-> "sales",
     severity |-> IF row.sales > row.avg_sales THEN "info" ELSE "warning",
     item |-> row.item, detector |-> "anomaly"]

\* store_sales rows of the store performance query
StoreCandidates ==
    { [item |-> 1, this_week |-> 120, last_week |-> 100],
      [item |-> 2, this_week |-> 80,  last_week |-> 100],
      [item |-> 3, this_week |-> 115, last_week |-> 100],
      [item |-> 4, this_week |-> 50,  last_week |-> 0],
      [item |-> 5, this_week |-> 85,  last_week |-> 100] }

\* the filter with >= 15
IsStoreSwingInclusive(r) ==
    r.last_week > 0 /\ Abs(r.this_week - r.last_week) * 100 >= 15 * r.last_week

\* WHERE last_week > 0 AND ABS((this_week - last_week) / last_week * 100) > 15
IsStoreSwing(r) ==
    r.last_week > 0 /\ Abs(r.this_week - r.last_week) * 100 > 15 * r.last_week

StoreAlert(row, id) ==
    [id |-> id, alert_type |-> "sales",
     severity |-> IF row.this_week - row.last_week > 0 THEN "info" ELSE "warning",
     item |-> row.item, detector |-> "store"]

RECURSIVE Orderings(_)
\* the orders in which a query without ORDER BY may return a set of rows
Orderings(rows) ==
    IF rows = {} THEN {<<>>}
    ELSE UNION { { <<r>> \o rest : rest \in Orderings(rows \ {r}) } : r \in rows }

\* the ids `alert_id` takes in a loop over `rows` that starts at first_id
AlertIds(first_id, rows) == [i \in 1..Len(rows) |-> first_id + i - 1]

\* the except clause around the whole body: logger.error(...); raise
OnLowStockException == "raised"

\* the call begins: alerts = [], alert_id = 1, the low stock query is awaited
GaCall ==
    /\ ga_pc = "idle"
    /\ ga_alerts' = <<>>
    /\ ga_alert_id' = 1
    /\ ga_failed' = {}
    /\ ga_daily_sales' = {}
    /\ ga_store_sales' = {}
    /\ ga_pc' = "low_stock"
    /\ UNCHANGED <<gen_vars, bus_vars, cache_vars, life_vars, mkt_vars, gr_vars>>

\* 1. the low stock query returns
GaLowStock ==
    /\ ga_pc = "low_stock"
    /\ \E aggregates \in SUBSET LowStockAggregates :
          LET rows == LowStockRows(aggregates)
          IN  /\ ga_alerts' = ga_alerts \o [i \in 1..Len(rows) |->
                                 LowStockAlert(rows[i], AlertIds(ga_alert_id, rows)[i])]
              /\ ga_alert_id' = ga_alert_id + Len(rows)
    /\ ga_pc' = "anomaly"
    /\ UNCHANGED <<ga_failed, ga_daily_sales, ga_store_sales>>
    /\ UNCHANGED <<gen_vars, bus_vars, cache_vars, life_vars, mkt_vars, gr_vars>>

\* 1. the low stock query raises: no try of its own, the outer except
\* logs and raises again
GaLowStockFails ==
    /\ ga_pc = "low_stock"
    /\ ga_failed' = ga_failed \cup {"low_stock"}
    /\ ga_pc' = OnLowStockException
    /\ UNCHANGED <<ga_alerts, ga_alert_id, ga_daily_sales, ga_store_sales>>
    /\ UNCHANGED <<gen_vars, bus_vars, cache_vars, life_vars, mkt_vars, gr_vars>>

\* 2. the anomaly query returns
GaAnomaly ==
    /\ ga_pc = "anomaly"
    /\ \E candidates \in SUBSET AnomalyCandidates :
          \E rows \in Orderings({ r \in OnLatestDate(candidates) : IsAnomaly(r) }) :
             /\ ga_alerts' = ga_alerts \o [i \in 1..Len(Limit(rows, 5)) |->
                                AnomalyAlert(rows[i], AlertIds(ga_alert_id, rows)[i])]
             /\ ga_alert_id' = ga_alert_id + Len(Limit(rows, 5))
             /\ ga_daily_sales' = candidates
    /\ ga_pc' = "store"
    /\ UNCHANGED <<ga_failed, ga_store_sales>>
    /\ UNCHANGED <<gen_vars, bus_vars, cache_vars, life_vars, mkt_vars, gr_vars>>

\* 2. the anomaly query raises: except Exception: pass
GaAnomalyFails ==
    /\ ga_pc = "anomaly"
    /\ ga_failed' = ga_failed \cup {"anomaly"}
    /\ ga_pc' = "store"
    /\ UNCHANGED <<ga_alerts, ga_alert_id, ga_daily_sales, ga_store_sales>>
    /\ UNCHANGED <<gen_vars, bus_vars, cache_vars, life_vars, mkt_vars, gr_vars>>

\* 3. the store performance query returns; return alerts
GaStore ==
    /\ ga_pc = "store"
    /\ \E candidates \in SUBSET StoreCandidates :
          \E rows \in Orderings({ r \in candidates : IsStoreSwing(r) }) :
             /\ ga_alerts' = ga_alerts \o [i \in 1..Len(rows) |->
                                StoreAlert(rows[i], AlertIds(ga_alert_id, rows)[i])]
             /\ ga_alert_id' = ga_alert_id + Len(rows)
             /\ ga_store_sales' = candidates
    /\ ga_pc' = "returned"
    /\ UNCHANGED <<ga_failed, ga_daily_sales>>
    /\ UNCHANGED <<gen_vars, bus_vars, cache_vars, life_vars, mkt_vars, gr_vars>>

\* 3. the store performance query raises: except Exception: pass; return alerts
GaStoreFails ==
    /\ ga_pc = "store"
    /\ ga_failed' = ga_failed \cup {"store"}
    /\ ga_pc' = "returned"
    /\ UNCHANGED <<ga_alerts, ga_alert_id, ga_daily_sales, ga_store_sales>>
    /\ UNCHANGED <<gen_vars, bus_vars, cache_vars, life_vars, mkt_vars, gr_vars>>

AlertsNext ==
    \/ GaCall
    \/ GaLowStock
    \/ GaLowStockFails
    \/ GaAnomaly
    \/ GaAnomalyFails
    \/ GaStore
    \/ GaStoreFails

\* one call of generate_alerts_from_sales
AlertsSpec == Init /\ [][AlertsNext]_vars

-----------------------------------------------------------------------------
(* Properties of generate_alerts_from_sales *)

\* C10: a failure of any one of the three detectors does not make the call
\* raise: the call returns the alerts of the detectors that succeeded.
C10_DetectorFailureIsolated ==
    ga_failed # {} => ga_pc # "raised"

\* the low stock alerts built so far
LowStockAlerts ==
    {ga_alerts[i] : i \in {j \in 1..Len(ga_alerts) : ga_alerts[j].detector = "low_stock"}}

\* the aggregate row of an item
AggregateOf(item) == CHOOSE r \in LowStockAggregates : r.item = item

\* C19: for every (store, item) of the low/out-of-stock detector the reorder
\* level is 100 when avg_daily_sales > 50, 50 when 20 < avg_daily_sales <= 50
\* and 25 otherwise; an alert is emitted only when the estimated quantity is
\* <= the reorder level, critical exactly when the quantity is <= 0 and
\* warning otherwise.
C19_ReorderTiersAndSeverity ==
    \A a \in LowStockAlerts :
       LET avg == AggregateOf(a.item).avg_daily_sales
       IN  /\ a.message.reorder_level =
                 (IF avg > 50 THEN 100 ELSE IF 20 < avg /\ avg <= 50 THEN 50 ELSE 25)
           /\ a.message.quantity = EstimatedQuantity(AggregateOf(a.item))
           /\ a.message.quantity <= a.message.reorder_level
           /\ a.severity = (IF a.message.quantity <= 0 THEN "critical" ELSE "warning")

\* alerts of all three tiers: out of stock in the highest, and a warning at
\* each of the limits 50 and 20 of avg_daily_sales
C19_Witness ==
    /\ \E a \in LowStockAlerts :
          a.item = 1 /\ a.severity = "critical" /\ a.message.reorder_level = 100
    /\ \E a \in LowStockAlerts :
          a.item = 5 /\ a.severity = "warning" /\ a.message.reorder_level = 50
    /\ \E a \in LowStockAlerts :
          a.item = 7 /\ a.severity = "warning" /\ a.message.reorder_level = 25
    /\ \E a \in LowStockAlerts :
          a.item = 9 /\ a.message.quantity = a.message.reorder_level

\* the alerts of one detector built so far
AlertsOf(detector) ==
    {ga_alerts[i] : i \in {j \in 1..Len(ga_alerts) : ga_alerts[j].detector = detector}}

\* C25: for each (store, product) pair the anomaly detector looks at, the
\* pair's most recent day is flagged exactly when its sales differ from the
\* pair's mean by more than 2 standard deviations, with severity info above
\* the mean and warning below it.
C25_AnomalyFlagsMostRecentDay ==
    (ga_pc \in {"store", "returned"} /\ "anomaly" \notin ga_failed) =>
       \A r \in ga_daily_sales :
          /\ (\E a \in AlertsOf("anomaly") : a.item = r.item)
                <=> Abs(r.sales - r.avg_sales) > 2 * r.stddev_sales
          /\ \A a \in AlertsOf("anomaly") :
                a.item = r.item =>
                   a.severity = (IF r.sales > r.avg_sales THEN "info" ELSE "warning")

\* C26: for every store with a positive prior-7-day total the store-trend
\* detector emits an alert exactly when the trailing-7-day total differs
\* from the prior one by more than 15% of the prior total (exactly 15% does
\* not alert), with severity info for an increase and warning for a
\* decrease.
C26_StoreTrendAlerts ==
    (ga_pc = "returned" /\ "store" \notin ga_failed) =>
       \A r \in ga_store_sales :
          r.last_week > 0 =>
             /\ (\E a \in AlertsOf("store") : a.item = r.item)
                   <=> (\/ (r.this_week - r.last_week) * 100 > 15 * r.last_week
                        \/ (r.last_week - r.this_week) * 100 > 15 * r.last_week)
             /\ \A a \in AlertsOf("store") :
                   a.item = r.item =>
                      a.severity = (IF r.this_week > r.last_week THEN "info"
                                    ELSE "warning")

\* the call has returned with the stores of +20% (info) and -20% (warning)
\* alerted and the stores of exactly +15% and -15% not alerted
C26_Witness ==
    /\ ga_pc = "returned"
    /\ "store" \notin ga_failed
    /\ {r.item : r \in ga_store_sales} = {1, 2, 3, 4, 5}
    /\ {a.item : a \in AlertsOf("store")} = {1, 2}
    /\ \E a \in AlertsOf("store") : a.item = 1 /\ a.severity = "info"
    /\ \E a \in AlertsOf("store") : a.item = 2 /\ a.severity = "warning"

-----------------------------------------------------------------------------
(* The cached read endpoints (get_kpis, get_alerts_summary,                *)
(* get_promotions_summary, get_inventory_summary) and the promotion write  *)
(* endpoints (create_promotion, update_promotion, delete_promotion).       *)

\* cached = await get_cached(cache_key)
EndpointGetCached(op) ==
    /\ ep_pc = "idle"
    /\ ep_op' = op
    /\ \E backend_fails \in BOOLEAN :
          LET got == GetCached(cache_redis_client, cache_store,
                               generate_cache_key(op), now, backend_fails)
          IN  /\ ep_cached' = IF got = Raised THEN None ELSE got
              /\ ep_pc' = IF got = Raised THEN "raised" ELSE "got"
    /\ ep_got_at' = now
    /\ ep_computed' = None
    /\ ep_result' = None
    /\ UNCHANGED <<redis_client, cache_redis_client, cache_store, now, db_version,
                   last_set, w_pc>>
    /\ UNCHANGED <<gen_vars, bus_vars, ga_vars, life_vars, mkt_vars, gr_vars>>

\* if cached: return cached.  Otherwise the result is computed from the
\* database; when that raises, the except branch returns the fallback
\* without caching it
EndpointCompute ==
    /\ ep_pc = "got"
    /\ IF ep_cached # None
       THEN /\ ep_result' = EndpointResult(ep_cached, ep_computed)
            /\ ep_pc' = "idle"
            /\ UNCHANGED ep_computed
       ELSE \E db_fails \in BOOLEAN :
               IF db_fails
               THEN /\ ep_result' = Fallback(ep_op)
                    /\ ep_pc' = "idle"
                    /\ UNCHANGED ep_computed
               ELSE /\ ep_computed' = Compute(ep_op, db_version)
                    /\ ep_pc' = "computed"
                    /\ UNCHANGED ep_result
    /\ UNCHANGED <<redis_client, cache_redis_client, cache_store, now, db_version,
                   ep_op, ep_cached, ep_got_at, last_set, w_pc>>
    /\ UNCHANGED <<gen_vars, bus_vars, ga_vars, life_vars, mkt_vars, gr_vars>>

\* await set_cached(cache_key, result, CACHE_TTL[prefix]); return result
EndpointSetCached ==
    /\ ep_pc = "computed"
    /\ LET key == generate_cache_key(ep_op)
           value == CacheData(ep_computed)
       IN  /\ \E backend_fails \in BOOLEAN :
                 cache_store' = SetCached(cache_redis_client, cache_store, key, value,
                                          CACHE_TTL[ep_op], now, backend_fails)
           /\ last_set' = [key |-> key, value |-> value, ttl |-> CACHE_TTL[ep_op],
                           at |-> now, invalidated |-> FALSE]
    /\ ep_result' = EndpointResult(ep_cached, ep_computed)
    /\ ep_pc' = "idle"
    /\ UNCHANGED <<redis_client, cache_redis_client, now, db_version,
                   ep_op, ep_cached, ep_got_at, ep_computed, w_pc>>
    /\ UNCHANGED <<gen_vars, bus_vars, ga_vars, life_vars, mkt_vars, gr_vars>>

\* a promotion create, update or delete: await session.commit() returns
PromotionCommit ==
    /\ w_pc = "idle"
    /\ db_version < MaxWrites
    /\ db_version' = db_version + 1
    /\ w_pc' = "committed"
    /\ UNCHANGED <<redis_client, cache_redis_client, cache_store, now,
                   ep_pc, ep_op, ep_cached, ep_got_at, ep_computed, ep_result,
                   last_set>>
    /\ UNCHANGED <<gen_vars, bus_vars, ga_vars, life_vars, mkt_vars, gr_vars>>

\* await invalidate_promotions_cache(): delete_cached("promotions_*")
PromotionInvalidate ==
    /\ w_pc = "committed"
    /\ \E backend_fails \in BOOLEAN :
          cache_store' = DeleteCached(cache_redis_client, cache_store, "promotions",
                                      backend_fails)
    /\ last_set' = IF last_set # None /\ last_set.key[2][1] = "promotions"
                   THEN [last_set EXCEPT !.invalidated = TRUE]
                   ELSE last_set
    /\ w_pc' = "invalidated"
    /\ UNCHANGED <<redis_client, cache_redis_client, now, db_version,
                   ep_pc, ep_op, ep_cached, ep_got_at, ep_computed, ep_result>>
    /\ UNCHANGED <<gen_vars, bus_vars, ga_vars, life_vars, mkt_vars, gr_vars>>

\* the write endpoint returns its response
PromotionReturn ==
    /\ w_pc = "invalidated"
    /\ w_pc' = "idle"
    /\ UNCHANGED <<redis_client, cache_redis_client, cache_store, now, db_version,
                   ep_pc, ep_op, ep_cached, ep_got_at, ep_computed, ep_result,
                   last_set>>
    /\ UNCHANGED <<gen_vars, bus_vars, ga_vars, life_vars, mkt_vars, gr_vars>>

\* time passes
ElapsedSeconds == {5, 15}

ClockAdvances ==
    /\ \E d \in ElapsedSeconds :
          /\ now + d <= MaxTime
          /\ now' = now + d
    /\ UNCHANGED <<redis_client, cache_redis_client, cache_store, db_version,
                   ep_pc, ep_op, ep_cached, ep_got_at, ep_computed, ep_result,
                   last_set, w_pc>>
    /\ UNCHANGED <<gen_vars, bus_vars, ga_vars, life_vars, mkt_vars, gr_vars>>

CacheNext ==
    \/ \E op \in Ops : EndpointGetCached(op)
    \/ EndpointCompute
    \/ EndpointSetCached
    \/ PromotionCommit
    \/ PromotionInvalidate
    \/ PromotionReturn
    \/ ClockAdvances

\* the cache and its endpoints alone
CacheSpec == Init /\ [][CacheNext]_vars

-----------------------------------------------------------------------------
(* Properties of the cache *)

\* C11: after init_redis has run, a value stored with set_cached(key, value,
\* ttl = T) is what get_cached(key) returns on every read less than T
\* seconds after the set (absent invalidation), and every read at or after
\* T seconds is a miss.
C11_EntryRetrievableUntilTtl ==
    ( /\ ep_pc = "got"
      /\ redis_client # None
      /\ last_set # None
      /\ last_set.key = generate_cache_key(ep_op)
      /\ ~last_set.invalidated )
    => IF ep_got_at < last_set.at + last_set.ttl
       THEN ep_cached = last_set.value
       ELSE ep_cached = None

\* C12: get_cached, set_cached and delete_cached never raise to the caller;
\* without a usable backend get_cached is a miss, set_cached and
\* delete_cached return normally, and the endpoint returns what it would
\* return without a cache: the result it computed from the database, or its
\* fallback when the computation failed.
C12_CacheFailsOpen ==
    /\ ep_pc # "raised"
    /\ (ep_pc \in {"got", "computed"} /\ cache_redis_client = None) => ep_cached = None
    /\ (ep_pc = "idle" /\ ep_result # None /\ ep_cached = None) =>
          /\ ep_computed # None => \E v \in 0..MaxWrites : ep_computed = Compute(ep_op, v)
          /\ ep_result = IF ep_computed # None THEN ep_computed ELSE Fallback(ep_op)

\* without a client: the alerts summary was recomputed and returned after
\* set_cached returned, and a promotion write's delete_cached has returned
C12_Witness ==
    /\ cache_redis_client = None
    /\ ep_pc = "idle"
    /\ ep_op = "alerts_summary"
    /\ ep_cached = None
    /\ ep_result = Compute("alerts_summary", 0)
    /\ last_set # None
    /\ last_set.key = generate_cache_key("alerts_summary")
    /\ w_pc = "invalidated"

-----------------------------------------------------------------------------
(* main.py, lifespan after its yield: the shutdown of the process.         *)

\* the awaits of start() and of the tick in which the task can be suspended
Suspended == {"loading", "lookup", "commit", "refresh", "publish", "sleep"}

\* the awaits inside the try block of start()
SuspendedInTry == {"lookup", "commit", "refresh", "publish"}

\* the except clause of start() catching the cancellation like a failure
OnCancelledInTryCaught == "sleep"

\* where the task goes when CancelledError is raised inside the try block:
\* `except Exception` does not match it, the exception leaves start()
OnCancelledInTry == "cancelled"

\* task.cancel(): CancelledError is raised at the await the task is
\* suspended in (a task that has not started never runs; cancel() does
\* nothing to a task that is done).  The session block is left, which
\* discards a Sale that is not committed; a COMMIT that was already sent
\* may have been executed.  lifespan then awaits the task.
ShutdownCancel ==
    /\ app_pc = "serving"
    /\ gen_pc \in Suspended \cup {"created", "dead"}
    /\ app_pc' = "awaiting"
    /\ IF gen_pc = "dead"
       THEN UNCHANGED gen_vars
       ELSE /\ gen_pc' = IF gen_pc \in SuspendedInTry THEN OnCancelledInTry
                         ELSE "cancelled"
            /\ \E committed \in {FALSE, gen_pc = "commit"} :
                  IF committed
                  THEN /\ transaction_type = "return" => return_streak < MaxCounter
                       /\ return_streak' = IF transaction_type = "return"
                                           THEN return_streak + 1 ELSE 0
                       /\ tick_persisted' = tick_persisted + 1
                  ELSE UNCHANGED <<return_streak, tick_persisted>>
            /\ NoLocals
            /\ sale_data' = None
            /\ UNCHANGED <<is_running, historical_stats, load_error, market_sentiment,
                           volatility_factor, consecutive_returns, tick_error,
                           tick_published>>
    /\ UNCHANGED <<db_closed, redis_closed>>
    /\ UNCHANGED <<bus_vars, ga_vars, cache_vars, mkt_vars, gr_vars>>

\* try: await task / except asyncio.CancelledError: pass.  The exception of
\* a task that had failed is not a CancelledError and leaves lifespan.
ShutdownAwaitTask ==
    /\ app_pc = "awaiting"
    /\ gen_pc \in {"cancelled", "dead"}
    /\ app_pc' = IF gen_pc = "cancelled" THEN "close_db" ELSE "crashed"
    /\ UNCHANGED <<db_closed, redis_closed>>
    /\ UNCHANGED <<gen_vars, bus_vars, ga_vars, cache_vars, mkt_vars, gr_vars>>

\* await close_db()
ShutdownCloseDb ==
    /\ app_pc = "close_db"
    /\ db_closed' = TRUE
    /\ app_pc' = "close_redis"
    /\ UNCHANGED redis_closed
    /\ UNCHANGED <<gen_vars, bus_vars, ga_vars, cache_vars, mkt_vars, gr_vars>>

\* await close_redis()
ShutdownCloseRedis ==
    /\ app_pc = "close_redis"
    /\ redis_closed' = TRUE
    /\ app_pc' = "stopped"
    /\ UNCHANGED db_closed
    /\ UNCHANGED <<gen_vars, bus_vars, ga_vars, cache_vars, mkt_vars, gr_vars>>

ShutdownNext ==
    \/ GenStart
    \/ LoadHistoricalStats
    \/ LoadHistoricalStatsFails
    \/ TickUpdateMarket
    \/ TickClassify
    \/ TickSample
    \/ TickGenerateValue
    \/ TickCommit
    \/ TickRefresh
    \/ TickPublish
    \/ TickFails
    \/ TickSleep
    \/ ShutdownCancel
    \/ ShutdownAwaitTask
    \/ ShutdownCloseDb
    \/ ShutdownCloseRedis

\* the generator task and the shutdown of the process
ShutdownSpec == Init /\ [][ShutdownNext]_vars

\* C14: on shutdown the generator task is cancelled and awaited before the
\* database and Redis are closed; once cancelled the task terminates
\* without starting another tick, and the tick the cancellation interrupts
\* leaves one committed event or none.
C14_GeneratorCancelledBeforeClose ==
    /\ app_pc # "serving" => gen_pc \in {"cancelled", "dead"}
    /\ (db_closed \/ redis_closed) =>
          (gen_pc = "cancelled" /\ app_pc \in {"close_redis", "stopped"})
    /\ redis_closed => db_closed
    /\ gen_pc = "cancelled" => tick_persisted \in {0, 1}

\* the cancellation interrupted a tick between its commit and its publish,
\* and the database and Redis have then been closed
C14_Witness ==
    /\ app_pc = "stopped"
    /\ gen_pc = "cancelled"
    /\ db_closed
    /\ redis_closed
    /\ tick_persisted = 1
    /\ tick_published = 0
    /\ return_streak = 2

\* C29: shutdown always closes the database and the Redis connection,
\* whatever state the generator task is in when shutdown begins: once
\* lifespan has ended, normally or not, both have been closed.
C29_ShutdownClosesDbAndRedis ==
    app_pc \in {"stopped", "crashed"} => (db_closed /\ redis_closed)

-----------------------------------------------------------------------------
(* _update_market_conditions against the clock: the method is called at   *)
(* any time, and time passes between the calls.  datetime.now() does not   *)
(* go backwards.                                                           *)

\* the clock is followed up to MaxClock seconds
MaxClock == 130

\* seconds that pass between two calls
SecondsChoices == {10, 31}

\* one call of _update_market_conditions
UpdateMarketConditions ==
    /\ \E threshold \in ThresholdChoices :
          LET elapsed == TimedeltaSeconds(clock - last_sentiment_update)
          IN  /\ UpdateMarketState(elapsed, threshold)
              /\ last_sentiment_update' =
                    IF UpdateDue(elapsed, threshold) THEN clock
                    ELSE last_sentiment_update
    /\ UNCHANGED clock
    /\ UNCHANGED <<gen_pc, is_running, historical_stats, load_error,
                   consecutive_returns, class_rand, class_force, high_return_draw,
                   transaction_type, store_id, item_id, sales_value, sale_data,
                   tick_error, return_streak, tick_persisted, tick_published>>
    /\ UNCHANGED <<bus_vars, ga_vars, cache_vars, life_vars, gr_vars>>

TimePasses ==
    /\ \E d \in SecondsChoices :
          /\ clock + d <= MaxClock
          /\ clock' = clock + d
    /\ UNCHANGED last_sentiment_update
    /\ UNCHANGED <<gen_vars, bus_vars, ga_vars, cache_vars, life_vars, gr_vars>>

MarketNext ==
    \/ UpdateMarketConditions
    \/ TimePasses

\* the market state and the clock alone
MarketSpec == Init /\ [][MarketNext]_vars

\* C24: a call changes the market state only when the whole seconds elapsed
\* since the last update exceed a threshold drawn from 30..90: within 30
\* seconds of the last update sentiment, volatility and the last-update
\* time are all unchanged (and past 90 seconds the update is certain); when
\* an update happens, the volatility is resampled and the last-update time
\* is set to the current time in the same step as the sentiment change.
C24_MarketUpdateOnlyWhenDue ==
    [][UpdateMarketConditions =>
          LET elapsed == clock - last_sentiment_update
              changed == \/ market_sentiment' # market_sentiment
                         \/ volatility_factor' # volatility_factor
                         \/ last_sentiment_update' # last_sentiment_update
          IN  /\ elapsed <= 30 => ~changed
              /\ elapsed > 90 => last_sentiment_update' = clock
              /\ changed => /\ last_sentiment_update' = clock
                            /\ volatility_factor' \in VolatilityChoices]_vars

\* an update 31 seconds after construction changed sentiment and
\* volatility; 30 seconds after it the state is still the one it left
C24_Witness ==
    /\ last_sentiment_update = 31
    /\ clock = 61
    /\ market_sentiment # 100
    /\ volatility_factor = 159

-----------------------------------------------------------------------------
(* routes/stream.py, generate_returns: one request, with the clients of    *)
(* /stream/sales that are connected while it runs.  The message of a       *)
(* return carries the id of its Sale row; the request is the only          *)
(* publisher here, so the n-th message carries the id n.                   *)

\* `count`: 10..200 in the code; the loop is followed for ReturnCount rows
ReturnCount == 2

\* the request arrives; stores and items are read.  Without stores or items
\* the handler returns its error before the loop
GrRequest ==
    /\ gr_pc = "idle"
    /\ \E empty \in BOOLEAN : gr_pc' = IF empty THEN "returned" ELSE "loop"
    /\ UNCHANGED <<gr_i, gr_pending, sales_table>>
    /\ UNCHANGED <<gen_vars, bus_vars, ga_vars, cache_vars, life_vars, mkt_vars>>

\* db.add(sale); await db.flush(): the row has its id, in the open
\* transaction
GrFlush ==
    /\ gr_pc = "loop"
    /\ gr_i < ReturnCount
    /\ gr_pending' = gr_pending \cup {gr_i + 1}
    /\ gr_pc' = "publish"
    /\ UNCHANGED <<gr_i, sales_table>>
    /\ UNCHANGED <<gen_vars, bus_vars, ga_vars, cache_vars, life_vars, mkt_vars>>

\* await publish_sale(return_data); the next iteration, or db.commit()
GrPublish ==
    /\ gr_pc = "publish"
    /\ PublishReturns(f_queue, "sales")
    /\ published' = [published EXCEPT !["sales"] = @ + 1]
    /\ f_queue' = PublishOn(f_queue, "sales", gr_i + 1)
    /\ gr_i' = gr_i + 1
    /\ gr_pc' = IF gr_i + 1 < ReturnCount THEN "loop" ELSE "commit"
    /\ UNCHANGED <<gr_pending, sales_table>>
    /\ UNCHANGED <<f_kind, f_pc, f_subscribed, f_closed, f_sub_at, f_frames, f_client>>
    /\ UNCHANGED <<gen_vars, ga_vars, cache_vars, life_vars, mkt_vars>>

\* await db.commit() returns: the rows of the request are in the table
GrCommit ==
    /\ gr_pc = "commit"
    /\ sales_table' = sales_table \cup gr_pending
    /\ gr_pending' = {}
    /\ gr_pc' = "returned"
    /\ UNCHANGED gr_i
    /\ UNCHANGED <<gen_vars, bus_vars, ga_vars, cache_vars, life_vars, mkt_vars>>

\* flush, publish or commit raises, or the request is cancelled at one of
\* these awaits: get_db rolls the transaction back (or closes the session,
\* which discards it) and the request ends
GrFails ==
    /\ gr_pc \in {"loop", "publish", "commit"}
    /\ gr_pending' = {}
    /\ gr_pc' = "failed"
    /\ UNCHANGED <<gr_i, sales_table>>
    /\ UNCHANGED <<gen_vars, bus_vars, ga_vars, cache_vars, life_vars, mkt_vars>>

ReturnsNext ==
    \/ GrRequest
    \/ GrFlush
    \/ GrPublish
    \/ GrCommit
    \/ GrFails
    \/ \E c \in Conns : Connect(c, "sales")
    \/ \E c \in Conns : Resume(c)
    \/ \E c \in Conns : Poll(c)
    \/ \E c \in Conns : PollFails(c)
    \/ \E c \in Conns : Cancel(c)
    \/ \E c \in Conns : ClientDisconnects(c)

\* a request of generate_returns and the sales stream
ReturnsSpec == Init /\ [][ReturnsNext]_vars

\* C30: generate_returns publishes a return only for a record that is
\* durably committed: when the request's commit has failed or the request
\* was aborted part-way through its loop, no subscriber has been sent a
\* message for a record that is absent from the store.
C30_PublishedReturnsAreCommitted ==
    gr_pc = "failed" =>
       \A c \in Conns :
          \A i \in 1..Len(f_frames[c]) :
             f_frames[c][i].via = "bus" => f_frames[c][i].data \in sales_table

=============================================================================
